---------------------------- MODULE Spec2Model ----------------------------
(***************************************************************************)
(* Model of src/dashboard.py: a Streamlit script that loads a spreadsheet, *)
(* keeps the complete rows of five columns, standardizes three of them,    *)
(* clusters the rows with KMeans(n_clusters=5, random_state=42), labels    *)
(* the clusters from a static table, filters the labeled rows by a year    *)
(* range chosen on a slider and renders four charts.                       *)
(*                                                                         *)
(* Streamlit runs the script from its first line to its last on the first  *)
(* page load and again on every widget change; only the body of a function *)
(* decorated with st.cache_data is skipped on a later run.  An uncaught    *)
(* exception ends the run where it is raised.  pc is the position of the   *)
(* current run in the script.                                              *)
(*                                                                         *)
(* Three specifications share the variables:                               *)
(*   Spec       a session: the first run and the runs the widgets trigger  *)
(*   SpecPrep   the Feature Preparer (lines 51-57) applied to tables       *)
(*   SpecLabel  the label lookup (lines 75, 96-100) applied to columns of  *)
(*              cluster identifiers, one of them not in cluster_labels     *)
(***************************************************************************)
EXTENDS Integers, Sequences, FiniteSets, TLC

(***************************************************************************)
(* Bounds of the model                                                     *)
(***************************************************************************)
\* longest table in the file of a session
MaxRows == 5
\* script runs in one session (the first run and the reruns)
MaxRuns == 2
\* longest table given to the Feature Preparer in SpecPrep
MaxPrepRows == 3
\* longest identifier column given to the label lookup in SpecLabel
MaxIdRows == 5
\* largest identifier in such a column
MaxId == 5

(***************************************************************************)
(* Program constants                                                       *)
(***************************************************************************)
\* KMeans(n_clusters=5, ...)
N_CLUSTERS == 5
\* KMeans(..., random_state=42)
RANDOM_STATE == 42
\* a missing cell of a numeric or country column (pandas NaN / None)
NaN == -1
\* a missing cell of the cluster_label column
NaNLabel == "NaN"

REQUIRED == {"Country/Territory", "year", "PR rating", "CL rating", "incidents"}

FEATURES == <<"PR rating", "CL rating", "incidents">>

\* the file's columns: the five the script selects and the ones it does not
\* select, which "other" stands for
FILE_COLUMNS == REQUIRED \cup {"other"}

\* cluster_labels with the label of identifier 3 copied from identifier 2
cluster_labels_copied ==
    (1 :> "Free & peaceful") @@
    (0 :> "Moderately free & low violence") @@
    (4 :> "Highly repressive but stable") @@
    (2 :> "Repressive & high violence") @@
    (3 :> "Repressive & high violence")

cluster_labels ==
    (1 :> "Free & peaceful") @@
    (0 :> "Moderately free & low violence") @@
    (4 :> "Highly repressive but stable") @@
    (2 :> "Repressive & high violence") @@
    (3 :> "Extreme violence contexts")

CLUSTER_ORDER ==
    << "Free & peaceful",
       "Moderately free & low violence",
       "Highly repressive but stable",
       "Repressive & high violence",
       "Extreme violence contexts" >>

\* label |-> index into px.colors.qualitative.Safe
CLUSTER_COLORS ==
    ("Free & peaceful" :> 0) @@
    ("Moderately free & low violence" :> 1) @@
    ("Highly repressive but stable" :> 2) @@
    ("Repressive & high violence" :> 3) @@
    ("Extreme violence contexts" :> 4)

(***************************************************************************)
(* Sequences and frames.  A frame is [cols |-> set of column names,        *)
(* rows |-> sequence of rows], a row a function from cols to cells.        *)
(***************************************************************************)
Range(s) == {s[i] : i \in 1..Len(s)}

SeqsUpTo(S, n) == UNION {[1..k -> S] : k \in 0..n}

RECURSIVE SumSeq(_)
SumSeq(s) == IF s = <<>> THEN 0 ELSE Head(s) + SumSeq(Tail(s))

SetMin(S) == CHOOSE x \in S : \A y \in S : x <= y

SetMax(S) == CHOOSE x \in S : \A y \in S : x >= y

\* sorted(...) of a set of numbers
RECURSIVE sorted(_)
sorted(S) == IF S = {} THEN <<>> ELSE <<SetMin(S)>> \o sorted(S \ {SetMin(S)})

RECURSIVE KeepRows(_, _)
KeepRows(rows, keep) ==
    IF rows = <<>> THEN <<>>
    ELSE IF keep[1] THEN <<Head(rows)>> \o KeepRows(Tail(rows), Tail(keep))
         ELSE KeepRows(Tail(rows), Tail(keep))

EmptyFrame == [cols |-> {}, rows |-> <<>>]

Column(d, c) == [i \in 1..Len(d.rows) |-> d.rows[i][c]]

\* d[[...cols...]]
SelectColumns(d, cols) ==
    [cols |-> cols,
     rows |-> [i \in 1..Len(d.rows) |-> [c \in cols |-> d.rows[i][c]]]]

\* d[mask]
Mask(d, keep) == [cols |-> d.cols, rows |-> KeepRows(d.rows, keep)]

\* d[c] = values
WithColumn(d, c, values) ==
    [cols |-> d.cols \cup {c},
     rows |-> [i \in 1..Len(d.rows) |->
                  [k \in d.cols \cup {c} |->
                      IF k = c THEN values[i] ELSE d.rows[i][k]]]]

Complete(r, cols) == \A c \in cols : r[c] # NaN


(***************************************************************************)
(* The statements of the script as operators                               *)
(***************************************************************************)
\* pd.read_excel("merged_freedom_gtd.xlsx"): the exception it raises, "" if none
ReadError(f) ==
    CASE f.kind = "missing"     -> "FileNotFoundError"
      [] f.kind = "unparseable" -> "ValueError"
      [] OTHER                  -> ""

read_excel(f) == [cols |-> f.cols, rows |-> f.rows]

\* load_data without @st.cache_data
CacheMiss(store) == FALSE

\* st.cache_data: the store holds the value of an earlier call that returned
CacheHit(store) == store # <<>>

\* the statement after statement at
NextStatement(at) ==
    CASE at = "load"    -> "prepare"
      [] at = "prepare" -> "scale"
      [] at = "scale"   -> "cluster"
      [] at = "cluster" -> "label"
      [] at = "label"   -> "slider"
      [] at = "slider"  -> "filter"
      [] at = "filter"  -> "v1"
      [] at = "v1"      -> "v2"
      [] at = "v2"      -> "v3"
      [] at = "v3"      -> "v4"
      [] OTHER          -> "done"

\* the statements wrapped in try/except: the run goes on after an exception
OnExceptionContinue(at) == NextStatement(at)

\* an uncaught exception in a module-level statement ends the script run
OnException(at) == "error"

\* df[[five columns]] raises KeyError when one of them is not in the frame
HasColumns(d) == REQUIRED \subseteq d.cols

\* the frame without .dropna()
dropna_omitted(d) == d

\* .dropna(): drop the rows with a missing cell in any column of the frame
dropna(d) == Mask(d, [i \in 1..Len(d.rows) |-> Complete(d.rows[i], d.cols)])

\* df.dropna()[[...]]: the rows dropped before the columns are selected
PrepareFrameDropFirst(d) == SelectColumns(dropna(d), REQUIRED)

\* df[[...]].dropna()
PrepareFrame(d) == dropna(SelectColumns(d, REQUIRED))

\* StandardScaler().fit_transform(cluster_df[[three columns]]): per column
\* (v - mean) / std, with std replaced by 1 when it is 0.  Row i, column c
\* is kept here as n*v - sum(column), that is (v - mean) times n: the
\* positive factor n/std of a column is shared by all its rows and left out.
fit_transform(d) ==
    LET n == Len(d.rows)
    IN  [i \in 1..n |->
            [j \in 1..Len(FEATURES) |->
                n * d.rows[i][FEATURES[j]] - SumSeq(Column(d, FEATURES[j]))]]

\* KMeans(n_clusters=5) without random_state
KMeansSeedUnseeded(e) == e

\* the seed KMeans draws its initial centroids from: random_state, or with
\* random_state=None the entropy e of the run
KMeansSeed(e) == RANDOM_STATE

EntropyValues == {0, 1}

\* KMeans.fit_predict is scikit-learn's: for a given input and seed it returns
\* one identifier in 0..n_clusters-1 per row, equal rows getting equal
\* identifiers.  Which identifiers is not fixed by this repository, so a first
\* call with (X, seed) chooses them and later calls with the same (X, seed)
\* return the same (memo).
ClusterIds == 0..(N_CLUSTERS - 1)

MemoHit(memo, X, seed) == \E m \in memo : m.X = X /\ m.seed = seed

MemoIds(memo, X, seed) == (CHOOSE m \in memo : m.X = X /\ m.seed = seed).ids

\* cluster_df["cluster"].map(cluster_labels): a key the dict lacks gives NaN
MapLabels(ids) ==
    [i \in 1..Len(ids) |->
        IF ids[i] \in DOMAIN cluster_labels THEN cluster_labels[ids[i]]
        ELSE NaNLabel]

\* pd.Categorical(values, categories=..., ordered=True): a value that is not
\* a category becomes NaN
Categorical(values, categories) ==
    [i \in 1..Len(values) |->
        IF values[i] \in Range(categories) THEN values[i] ELSE NaNLabel]

\* lines 75 and 96-100
LabelFrame(d) ==
    WithColumn(d, "cluster_label",
               Categorical(MapLabels(Column(d, "cluster")), CLUSTER_ORDER))

\* the range with its bounds excluded
YearInRangeStrict(y, yr) == y > yr[1] /\ y < yr[2]

\* (cluster_df["year"] >= year_range[0]) & (cluster_df["year"] <= year_range[1])
YearInRange(y, yr) == y >= yr[1] /\ y <= yr[2]

FilterYears(d, yr) ==
    Mask(d, [i \in 1..Len(d.rows) |-> YearInRange(d.rows[i]["year"], yr)])

\* Series.value_counts() of a categorical column: a count for every category,
\* 0 for one no row has; NaN cells are not counted.  (The Series is ordered by
\* count; reindex looks the labels up and does not read that order.)
value_counts(col, categories) ==
    [l \in Range(categories) |-> Cardinality({i \in 1..Len(col) : col[i] = l})]

\* .reindex(order): one entry per label of order, NaN for a label not in s
reindex(s, order) ==
    [k \in 1..Len(order) |->
        [Cluster |-> order[k],
         Count   |-> IF order[k] \in DOMAIN s THEN s[order[k]] ELSE NaN]]

\* .fillna(0)
fillna(t) == [k \in 1..Len(t) |-> [t[k] EXCEPT !.Count = IF @ = NaN THEN 0 ELSE @]]

\* the count table reindexed by identifier, 0..4, instead of CLUSTER_ORDER
CountTableByIdentifier(d) ==
    fillna(reindex(value_counts(Column(d, "cluster_label"), CLUSTER_ORDER),
                   [k \in 1..N_CLUSTERS |-> cluster_labels[k - 1]]))

\* lines 181-188
CountTable(d) ==
    fillna(reindex(value_counts(Column(d, "cluster_label"), CLUSTER_ORDER),
                   CLUSTER_ORDER))

\* sorted(filtered_df["Country/Territory"].unique())
CountryOptions(d) == sorted(Range(Column(d, "Country/Territory")))

\* sorted(...)[0] in place of the selectbox: IndexError on an empty list
SelectErrorIndex(options) == IF options = <<>> THEN "IndexError" ELSE ""

\* st.selectbox accepts an empty list of options: the exception it raises,
\* "" as it raises none
SelectError(options) == ""

\* st.selectbox(label, options): <<>> stands for None.  The widget keeps the
\* user's choice while its options are the ones the choice was made from,
\* and otherwise shows the first option, or None when there is none.
selectbox(options, state) ==
    IF state # <<>> /\ state[1].options = options THEN <<state[1].value>>
    ELSE IF options = <<>> THEN <<>>
    ELSE <<options[1]>>

\* filtered_df[filtered_df["Country/Territory"] == country]
CountrySlice(d, c) ==
    Mask(d, [i \in 1..Len(d.rows) |->
                c # <<>> /\ d.rows[i]["Country/Territory"] = c[1]])

\* st.sidebar.slider(label, lo, hi, (lo, hi)): the user's range if one was
\* chosen, the whole range otherwise
slider(lo, hi, state) == IF state # <<>> THEN state[1] ELSE <<lo, hi>>

(***************************************************************************)
(* State                                                                   *)
(***************************************************************************)
VARIABLES
    file,           \* merged_freedom_gtd.xlsx on disk: [kind, cols, rows]
    cache,          \* st.cache_data's store for load_data: <<>> or <<frame>>
    pc,             \* position of the current run in the script
    error,          \* the exception that ended the current run, "" if none
    runs,           \* script runs started in the session
    loadExecs,      \* executions of load_data's body (read_excel)
    scaleExecs,     \* executions of scaler.fit_transform
    clusterExecs,   \* executions of kmeans.fit_predict
    kmeansMemo,     \* what fit_predict returned: set of [X, seed, ids]
    firstIds,       \* <<ids>> of the session's first clustering, else <<>>
    sliderState,    \* the year range the user chose: <<>> or <<<<lo, hi>>>>
    selectState,    \* the country the user chose: <<>> or <<[options, value]>>
    stages,         \* statements of the current run that have completed
    df, cluster_df, X_scaled, year_range, filtered_df, cluster_counts,
    country, country_df,
    charts          \* st.plotly_chart calls of the current run: [id, order]

sessionVars ==
    <<file, cache, runs, loadExecs, scaleExecs, clusterExecs, kmeansMemo,
      firstIds, sliderState, selectState>>

runVars ==
    <<pc, error, stages, df, cluster_df, X_scaled, year_range, filtered_df,
      cluster_counts, country, country_df, charts>>

vars == <<sessionVars, runVars>>

\* a run starts with the module's names unbound and nothing rendered
FreshRun ==
    /\ pc = "load"
    /\ error = ""
    /\ stages = {}
    /\ df = EmptyFrame
    /\ cluster_df = EmptyFrame
    /\ X_scaled = <<>>
    /\ year_range = <<>>
    /\ filtered_df = EmptyFrame
    /\ cluster_counts = <<>>
    /\ country = <<>>
    /\ country_df = EmptyFrame
    /\ charts = {}

FreshSession ==
    /\ cache = <<>>
    /\ runs = 1
    /\ loadExecs = 0
    /\ scaleExecs = 0
    /\ clusterExecs = 0
    /\ kmeansMemo = {}
    /\ firstIds = <<>>
    /\ sliderState = <<>>
    /\ selectState = <<>>

(***************************************************************************)
(* The files of a session                                                  *)
(***************************************************************************)
Row(c, y, pr, cl, inc, o) ==
    [k \in FILE_COLUMNS |->
        CASE k = "Country/Territory" -> c
          [] k = "year"              -> y
          [] k = "PR rating"         -> pr
          [] k = "CL rating"         -> cl
          [] k = "incidents"         -> inc
          [] OTHER                   -> o]

\* two complete country-years two years apart and a row without a PR rating
SessionRows ==
    { Row(1, 2000, 1, 1, 0, 0),
      Row(2, 2002, 7, 7, 5, 0),
      Row(1, 2002, NaN, 1, 0, 0) }

SessionFiles ==
    { [kind |-> "missing", cols |-> {}, rows |-> <<>>],
      [kind |-> "unparseable", cols |-> {}, rows |-> <<>>] }
    \cup
    { [kind |-> "ok", cols |-> FILE_COLUMNS, rows |-> t] :
          t \in SeqsUpTo(SessionRows, MaxRows) }
    \cup
    { SelectColumns([kind |-> "ok", cols |-> FILE_COLUMNS, rows |-> t],
                    FILE_COLUMNS \ {"incidents"}) @@ [kind |-> "ok"] :
          t \in SeqsUpTo(SessionRows, 1) }

Init ==
    /\ file \in SessionFiles
    /\ FreshSession
    /\ FreshRun

(***************************************************************************)
(* The script, statement by statement                                      *)
(***************************************************************************)
Done(at) == stages' = stages \cup {at}

Raise(at, e) ==
    /\ pc' = OnException(at)
    /\ error' = e
    /\ UNCHANGED stages

\* lines 39-43: df = load_data()
Load ==
    /\ pc = "load"
    /\ IF CacheHit(cache)
       THEN /\ df' = cache[1]
            /\ pc' = "prepare"
            /\ Done("load")
            /\ UNCHANGED <<cache, loadExecs, error>>
       ELSE /\ loadExecs' = loadExecs + 1
            /\ IF ReadError(file) # ""
               THEN /\ Raise("load", ReadError(file))
                    /\ UNCHANGED <<df, cache>>
               ELSE /\ df' = read_excel(file)
                    /\ cache' = <<read_excel(file)>>
                    /\ pc' = "prepare"
                    /\ Done("load")
                    /\ UNCHANGED error
    /\ UNCHANGED <<file, runs, scaleExecs, clusterExecs, kmeansMemo, firstIds,
                   sliderState, selectState, cluster_df, X_scaled, year_range,
                   filtered_df, cluster_counts, country, country_df, charts>>

\* lines 51-57: cluster_df = df[[...]].dropna()
Prepare ==
    /\ pc = "prepare"
    /\ IF ~HasColumns(df)
       THEN /\ Raise("prepare", "KeyError")
            /\ UNCHANGED cluster_df
       ELSE /\ cluster_df' = PrepareFrame(df)
            /\ pc' = "scale"
            /\ Done("prepare")
            /\ UNCHANGED error
    /\ UNCHANGED <<sessionVars, df, X_scaled, year_range, filtered_df,
                   cluster_counts, country, country_df, charts>>

\* lines 59-62: X_scaled = scaler.fit_transform(...); no row is a ValueError
Scale ==
    /\ pc = "scale"
    /\ scaleExecs' = scaleExecs + 1
    /\ IF ~HasColumns(cluster_df) \/ Len(cluster_df.rows) = 0
       THEN /\ Raise("scale", IF HasColumns(cluster_df) THEN "ValueError"
                              ELSE "KeyError")
            /\ UNCHANGED X_scaled
       ELSE /\ X_scaled' = fit_transform(cluster_df)
            /\ pc' = "cluster"
            /\ Done("scale")
            /\ UNCHANGED error
    /\ UNCHANGED <<file, cache, runs, loadExecs, clusterExecs, kmeansMemo,
                   firstIds, sliderState, selectState, df, cluster_df,
                   year_range, filtered_df, cluster_counts, country,
                   country_df, charts>>

\* lines 64-65: cluster_df["cluster"] = kmeans.fit_predict(X_scaled); fewer
\* rows than clusters is a ValueError
Cluster ==
    /\ pc = "cluster"
    /\ clusterExecs' = clusterExecs + 1
    /\ IF Len(X_scaled) < N_CLUSTERS
       THEN /\ Raise("cluster", "ValueError")
            /\ UNCHANGED <<cluster_df, kmeansMemo, firstIds>>
       ELSE /\ \E e \in EntropyValues :
                 LET seed == KMeansSeed(e)
                 IN  IF MemoHit(kmeansMemo, X_scaled, seed)
                     THEN /\ cluster_df' =
                                WithColumn(cluster_df, "cluster",
                                           MemoIds(kmeansMemo, X_scaled, seed))
                          /\ UNCHANGED kmeansMemo
                     ELSE \E f \in [Range(X_scaled) -> ClusterIds] :
                            LET ids == [i \in 1..Len(X_scaled) |-> f[X_scaled[i]]]
                            IN  /\ cluster_df' =
                                      WithColumn(cluster_df, "cluster", ids)
                                /\ kmeansMemo' = kmeansMemo \cup
                                      {[X |-> X_scaled, seed |-> seed, ids |-> ids]}
            /\ firstIds' = IF firstIds = <<>>
                           THEN <<Column(cluster_df', "cluster")>>
                           ELSE firstIds
            /\ pc' = "label"
            /\ Done("cluster")
            /\ UNCHANGED error
    /\ UNCHANGED <<file, cache, runs, loadExecs, scaleExecs, sliderState,
                   selectState, df, X_scaled, year_range, filtered_df,
                   cluster_counts, country, country_df, charts>>

\* lines 67-100: cluster_df["cluster_label"] = ...map(cluster_labels), then
\* pd.Categorical(..., categories=CLUSTER_ORDER, ordered=True)
Label ==
    /\ pc = "label"
    /\ IF "cluster" \notin cluster_df.cols
       THEN /\ Raise("label", "KeyError")
            /\ UNCHANGED cluster_df
       ELSE /\ cluster_df' = LabelFrame(cluster_df)
            /\ pc' = "slider"
            /\ Done("label")
            /\ UNCHANGED error
    /\ UNCHANGED <<sessionVars, df, X_scaled, year_range, filtered_df,
                   cluster_counts, country, country_df, charts>>

\* lines 119-127: the slider over the years of cluster_df; int(NaN) of an
\* empty column is a ValueError
Slider ==
    /\ pc = "slider"
    /\ IF ~("year" \in cluster_df.cols) \/ Len(cluster_df.rows) = 0
       THEN /\ Raise("slider", "ValueError")
            /\ UNCHANGED year_range
       ELSE /\ year_range' = slider(SetMin(Range(Column(cluster_df, "year"))),
                                    SetMax(Range(Column(cluster_df, "year"))),
                                    sliderState)
            /\ pc' = "filter"
            /\ Done("slider")
            /\ UNCHANGED error
    /\ UNCHANGED <<sessionVars, df, cluster_df, X_scaled, filtered_df,
                   cluster_counts, country, country_df, charts>>

\* lines 129-132: filtered_df = cluster_df[(year >= lo) & (year <= hi)]
Filter ==
    /\ pc = "filter"
    /\ IF ~("year" \in cluster_df.cols) \/ year_range = <<>>
       THEN /\ Raise("filter", "KeyError")
            /\ UNCHANGED filtered_df
       ELSE /\ filtered_df' = FilterYears(cluster_df, year_range)
            /\ pc' = "v1"
            /\ Done("filter")
            /\ UNCHANGED error
    /\ UNCHANGED <<sessionVars, df, cluster_df, X_scaled, year_range,
                   cluster_counts, country, country_df, charts>>

\* px.* raises ValueError for a column name that is not in the frame
Plottable(d) == REQUIRED \cup {"cluster_label"} \subseteq d.cols

Chart(id, order) == [id |-> id, order |-> order]

\* lines 143-169: the scatter of filtered_df
V1 ==
    /\ pc = "v1"
    /\ IF ~Plottable(filtered_df)
       THEN /\ Raise("v1", "ValueError")
            /\ UNCHANGED charts
       ELSE /\ charts' = charts \cup {Chart("v1", CLUSTER_ORDER)}
            /\ pc' = "v2"
            /\ Done("v1")
            /\ UNCHANGED error
    /\ UNCHANGED <<sessionVars, df, cluster_df, X_scaled, year_range,
                   filtered_df, cluster_counts, country, country_df>>

\* lines 174-201: the count table and its bar chart
V2 ==
    /\ pc = "v2"
    /\ IF ~Plottable(filtered_df)
       THEN /\ Raise("v2", "KeyError")
            /\ UNCHANGED <<cluster_counts, charts>>
       ELSE /\ cluster_counts' = CountTable(filtered_df)
            /\ charts' = charts \cup {Chart("v2", CLUSTER_ORDER)}
            /\ pc' = "v3"
            /\ Done("v2")
            /\ UNCHANGED error
    /\ UNCHANGED <<sessionVars, df, cluster_df, X_scaled, year_range,
                   filtered_df, country, country_df>>

\* lines 206-234: the country selectbox, country_df and its line chart
V3 ==
    /\ pc = "v3"
    /\ IF ~Plottable(filtered_df) \/ SelectError(CountryOptions(filtered_df)) # ""
       THEN /\ Raise("v3", IF Plottable(filtered_df)
                           THEN SelectError(CountryOptions(filtered_df))
                           ELSE "ValueError")
            /\ UNCHANGED <<country, country_df, charts>>
       ELSE /\ country' = selectbox(CountryOptions(filtered_df), selectState)
            /\ country_df' = CountrySlice(filtered_df, country')
            /\ charts' = charts \cup {Chart("v3", <<>>)}
            /\ pc' = "v4"
            /\ Done("v3")
            /\ UNCHANGED error
    /\ UNCHANGED <<sessionVars, df, cluster_df, X_scaled, year_range,
                   filtered_df, cluster_counts>>

\* lines 239-259: the box plot of filtered_df
V4 ==
    /\ pc = "v4"
    /\ IF ~Plottable(filtered_df)
       THEN /\ Raise("v4", "ValueError")
            /\ UNCHANGED charts
       ELSE /\ charts' = charts \cup {Chart("v4", CLUSTER_ORDER)}
            /\ pc' = "done"
            /\ Done("v4")
            /\ UNCHANGED error
    /\ UNCHANGED <<sessionVars, df, cluster_df, X_scaled, year_range,
                   filtered_df, cluster_counts, country, country_df>>

(***************************************************************************)
(* The widgets: a change reruns the script from its first line, with the   *)
(* module's names unbound and nothing rendered, as in FreshRun             *)
(***************************************************************************)
Rerun ==
    /\ runs < MaxRuns
    /\ runs' = runs + 1
    /\ pc' = "load"
    /\ error' = ""
    /\ stages' = {}
    /\ df' = EmptyFrame
    /\ cluster_df' = EmptyFrame
    /\ X_scaled' = <<>>
    /\ year_range' = <<>>
    /\ filtered_df' = EmptyFrame
    /\ cluster_counts' = <<>>
    /\ country' = <<>>
    /\ country_df' = EmptyFrame
    /\ charts' = {}
    /\ UNCHANGED <<file, cache, loadExecs, scaleExecs, clusterExecs,
                   kmeansMemo, firstIds>>

\* the user moves the year slider to lo..hi within the years of the data
ChangeYearRange ==
    /\ pc = "done"
    /\ \E lo \in SetMin(Range(Column(cluster_df, "year")))
                 ..SetMax(Range(Column(cluster_df, "year"))) :
         \E hi \in lo..SetMax(Range(Column(cluster_df, "year"))) :
            /\ <<lo, hi>> # year_range
            /\ sliderState' = << <<lo, hi>> >>
    /\ UNCHANGED selectState
    /\ Rerun

\* the user picks another country of the selectbox
ChangeCountry ==
    /\ pc = "done"
    /\ \E c \in Range(CountryOptions(filtered_df)) :
            /\ <<c>> # country
            /\ selectState' =
                  << [options |-> CountryOptions(filtered_df), value |-> c] >>
    /\ UNCHANGED sliderState
    /\ Rerun

Next ==
    \/ Load
    \/ Prepare
    \/ Scale
    \/ Cluster
    \/ Label
    \/ Slider
    \/ Filter
    \/ V1
    \/ V2
    \/ V3
    \/ V4
    \/ ChangeYearRange
    \/ ChangeCountry

Spec == Init /\ [][Next]_vars

(***************************************************************************)
(* SpecPrep: the Feature Preparer applied to the table load_data returned  *)
(***************************************************************************)
\* the four complete country-years of two countries and two years, and the
\* first of them with one cell missing, for each column of the file
PrepRows ==
    { Row(c, y, 1, 1, 0, 0) : c \in {1, 2}, y \in {2000, 2001} }
    \cup
    { [Row(1, 2000, 1, 1, 0, 0) EXCEPT ![k] = NaN] : k \in FILE_COLUMNS }

AfterLoad(d) ==
    /\ file = [kind |-> "ok", cols |-> d.cols, rows |-> d.rows]
    /\ cache = <<d>>
    /\ runs = 1
    /\ loadExecs = 1
    /\ sliderState = <<>>
    /\ selectState = <<>>
    /\ error = ""
    /\ df = d
    /\ year_range = <<>>
    /\ filtered_df = EmptyFrame
    /\ cluster_counts = <<>>
    /\ country = <<>>
    /\ country_df = EmptyFrame
    /\ charts = {}

InitPrep ==
    /\ \E t \in SeqsUpTo(PrepRows, MaxPrepRows) :
          AfterLoad([cols |-> FILE_COLUMNS, rows |-> t])
    /\ pc = "prepare"
    /\ stages = {"load"}
    /\ cluster_df = EmptyFrame
    /\ X_scaled = <<>>
    /\ scaleExecs = 0
    /\ clusterExecs = 0
    /\ kmeansMemo = {}
    /\ firstIds = <<>>

NextPrep == Prepare

SpecPrep == InitPrep /\ [][NextPrep]_vars

(***************************************************************************)
(* SpecLabel: the label lookup applied to cluster_df as it is after the    *)
(* clustering, with a column of identifiers drawn from those of the static *)
(* table and one more.  Row i has year 2000 + i and the PR rating 1 + its  *)
(* identifier, so that rows of different clusters differ.                  *)
(***************************************************************************)
IdColumns == UNION {[1..k -> 0..MaxId] : k \in N_CLUSTERS..MaxIdRows}

IdFrame(ids) ==
    [cols |-> FILE_COLUMNS,
     rows |-> [i \in 1..Len(ids) |-> Row(1, 2000 + i, 1 + ids[i], 1, 0, 0)]]

InitLabel ==
    /\ \E ids \in IdColumns :
          LET prepared == PrepareFrame(IdFrame(ids))
          IN  /\ AfterLoad(IdFrame(ids))
              /\ cluster_df = WithColumn(prepared, "cluster", ids)
              /\ X_scaled = fit_transform(prepared)
              /\ kmeansMemo = {[X |-> fit_transform(prepared),
                                seed |-> KMeansSeed(0), ids |-> ids]}
              /\ firstIds = <<ids>>
    /\ scaleExecs = 1
    /\ clusterExecs = 1
    /\ pc = "label"
    /\ stages = {"load", "prepare", "scale", "cluster"}

NextLabel == Label

SpecLabel == InitLabel /\ [][NextLabel]_vars

(***************************************************************************)
(* Properties                                                              *)
(***************************************************************************)
Year(r) == r["year"]

Pair(r) == <<r["Country/Territory"], r["year"]>>

\* the rows of a sequence at the positions I, in their order
RowsAt(rows, I) == LET s == sorted(I) IN [k \in 1..Len(s) |-> rows[s[k]]]

InsideRange(d, yr) ==
    {i \in 1..Len(d.rows) : yr[1] <= Year(d.rows[i]) /\ Year(d.rows[i]) <= yr[2]}

UniquePairs(rows) ==
    \A i, j \in 1..Len(rows) : Pair(rows[i]) = Pair(rows[j]) => i = j

CompleteRequired(d) ==
    {i \in 1..Len(d.rows) : \A c \in REQUIRED : d.rows[i][c] # NaN}

\* C1: once the filter has run, filtered_df holds exactly the rows of the
\* labeled cluster_df whose year is within the slider's inclusive range, in
\* their order: none outside the range, none inside it dropped, and with
\* both ends equal to y only rows of year y.
C1_FilterExact ==
    "filter" \in stages =>
        /\ filtered_df.cols = cluster_df.cols
        /\ filtered_df.rows =
              RowsAt(cluster_df.rows, InsideRange(cluster_df, year_range))
        /\ \A k \in 1..Len(filtered_df.rows) :
              /\ year_range[1] <= Year(filtered_df.rows[k])
              /\ Year(filtered_df.rows[k]) <= year_range[2]
              /\ year_range[1] = year_range[2] =>
                    Year(filtered_df.rows[k]) = year_range[1]

\* C1 witness: the user chose a single year that some rows have and others
\* do not, and the run has finished.
C1_Witness ==
    /\ pc = "done"
    /\ sliderState # <<>>
    /\ year_range[1] = year_range[2]
    /\ 0 < Len(filtered_df.rows)
    /\ Len(filtered_df.rows) < Len(cluster_df.rows)

\* C2: when no row of the labeled dataset has its year in the chosen range,
\* the filtered view is empty and the run is in no error state, neither at
\* the filter nor in the steps that read the empty view: the count table
\* holds only zeros, the country selection is None and the country slice
\* is empty.
C2_EmptyViewNoError ==
    ("filter" \in stages /\ InsideRange(cluster_df, year_range) = {}) =>
        /\ filtered_df.rows = <<>>
        /\ pc # "error"
        /\ error = ""
        /\ "v2" \in stages =>
              /\ Len(cluster_counts) = Len(CLUSTER_ORDER)
              /\ \A k \in 1..Len(cluster_counts) : cluster_counts[k].Count = 0
        /\ "v3" \in stages => country = <<>> /\ country_df.rows = <<>>

\* C2 witness: a run that finished all four charts on an empty view of a
\* non-empty labeled dataset.
C2_Witness ==
    /\ pc = "done"
    /\ filtered_df.rows = <<>>
    /\ Len(cluster_df.rows) >= N_CLUSTERS
    /\ {"v1", "v2", "v3", "v4"} \subseteq stages

C5_NoChartAfterFailure ==
    /\ error # "" <=> pc = "error"
    /\ pc = "error" => charts = {}
    /\ charts # {} =>
          {"load", "prepare", "scale", "cluster", "label"} \subseteq stages

\* C5 witness: the file was read and a required column is absent.
C5_Witness ==
    /\ pc = "error"
    /\ error = "KeyError"
    /\ "load" \in stages
    /\ ~HasColumns(df)

\* C6: cluster_labels is defined on exactly the identifiers 0..4, gives each
\* a label that is not missing, gives no two the same label, and its labels
\* are exactly the entries of CLUSTER_ORDER, each of which has a color; every
\* labeled row carries the label of its identifier; and every chart that
\* orders by label is given CLUSTER_ORDER, whatever the counts.
C6_StaticTables ==
    /\ DOMAIN cluster_labels = ClusterIds
    /\ \A a \in DOMAIN cluster_labels : cluster_labels[a] # NaNLabel
    /\ \A a, b \in DOMAIN cluster_labels :
          cluster_labels[a] = cluster_labels[b] => a = b
    /\ {cluster_labels[a] : a \in DOMAIN cluster_labels} = Range(CLUSTER_ORDER)
    /\ Len(CLUSTER_ORDER) = N_CLUSTERS
    /\ Range(CLUSTER_ORDER) \subseteq DOMAIN CLUSTER_COLORS
    /\ "label" \in stages =>
          \A i \in 1..Len(cluster_df.rows) :
              cluster_df.rows[i]["cluster_label"] =
                  cluster_labels[cluster_df.rows[i]["cluster"]]
    /\ \A ch \in charts : ch.id # "v3" => ch.order = CLUSTER_ORDER

\* C6 witness: the charts are rendered while the clusters hold different
\* numbers of rows.
C6_Witness ==
    /\ pc = "done"
    /\ \E j, k \in 1..Len(cluster_counts) :
          /\ cluster_counts[j].Count > cluster_counts[k].Count
          /\ cluster_counts[k].Count > 0

\* C7: the Preparer's output has the five selected columns and holds exactly
\* the input rows with a value in all five, cut to those columns, in their
\* original order.
C7_PreparerExact ==
    "prepare" \in stages =>
        /\ cluster_df.cols = REQUIRED
        /\ cluster_df.rows =
              RowsAt(SelectColumns(df, REQUIRED).rows, CompleteRequired(df))
        /\ \A k \in 1..Len(cluster_df.rows) :
              \A c \in REQUIRED : cluster_df.rows[k][c] # NaN

\* C7 witness: the Preparer dropped a row, kept a row, and kept one whose
\* only missing cell is in a column that is not selected.
C7_Witness ==
    /\ "prepare" \in stages
    /\ 0 < Len(cluster_df.rows)
    /\ Len(cluster_df.rows) < Len(df.rows)
    /\ \E i \in CompleteRequired(df) : df.rows[i]["other"] = NaN

\* C8 as stated: no two rows of the Preparer's output share country and year.
C8_UniqueAlways ==
    "prepare" \in stages => UniquePairs(cluster_df.rows)

\* C8, amended: no two rows of the Preparer's output share country and year
\* when no two complete rows of its input do.
C8_UniqueIfInputUnique ==
    ("prepare" \in stages /\ UniquePairs(RowsAt(df.rows, CompleteRequired(df))))
        => UniquePairs(cluster_df.rows)

\* C8 witness: the complete rows of the input have distinct country-years,
\* a dropped row shares the country-year of a kept one, and two rows are kept.
C8_Witness ==
    /\ "prepare" \in stages
    /\ UniquePairs(RowsAt(df.rows, CompleteRequired(df)))
    /\ Len(cluster_df.rows) >= 2
    /\ \E i \in CompleteRequired(df) :
          \E j \in (1..Len(df.rows)) \ CompleteRequired(df) :
              Pair(df.rows[i]) = Pair(df.rows[j])

\* C9: in every run of a session the clustering gives every row the
\* identifier it got in the session's first clustering, and the labeling
\* the label of that identifier.
C9_SameAssignment ==
    "cluster" \in stages =>
        /\ firstIds # <<>>
        /\ Column(cluster_df, "cluster") = firstIds[1]
        /\ "label" \in stages =>
              \A i \in 1..Len(cluster_df.rows) :
                  cluster_df.rows[i]["cluster_label"] =
                      cluster_labels[firstIds[1][i]]

\* C9 witness: a rerun has clustered and labeled again, the rows being in
\* more than one cluster.
C9_Witness ==
    /\ runs >= 2
    /\ "label" \in stages
    /\ clusterExecs >= 2
    /\ Cardinality(Range(firstIds[1])) >= 2

\* C10: the count table has five rows, one per label of CLUSTER_ORDER in that
\* order, each with the number of rows of the filtered view that carry the
\* label; the counts add up to the size of the filtered view; and the
\* scatter, bar and box charts are given that same order.
C10_CountTable ==
    "v2" \in stages =>
        /\ Len(cluster_counts) = N_CLUSTERS
        /\ \A k \in 1..Len(cluster_counts) :
              /\ cluster_counts[k].Cluster = CLUSTER_ORDER[k]
              /\ cluster_counts[k].Count =
                    Cardinality({i \in 1..Len(filtered_df.rows) :
                        filtered_df.rows[i]["cluster_label"] = CLUSTER_ORDER[k]})
        /\ SumSeq([k \in 1..Len(cluster_counts) |-> cluster_counts[k].Count])
              = Len(filtered_df.rows)
        /\ \A ch \in charts :
              ch.id \in {"v1", "v2", "v4"} =>
                  ch.order = [k \in 1..Len(cluster_counts) |->
                                 cluster_counts[k].Cluster]

\* C10 witness: on a view the user narrowed, one label has no row and
\* another has several.
C10_Witness ==
    /\ pc = "done"
    /\ sliderState # <<>>
    /\ Len(filtered_df.rows) < Len(cluster_df.rows)
    /\ \E j, k \in 1..Len(cluster_counts) :
          cluster_counts[j].Count = 0 /\ cluster_counts[k].Count >= 2

=============================================================================
